---- MODULE Spec2Model ----
(***************************************************************************)
(* A model of parseit's bytecode compiler (compiler.comp) and its stack    *)
(* virtual machine (compiler.Runner), next to the tree-walking interpreter *)
(* of parseit/__init__.py.                                                 *)
(*                                                                         *)
(* Conventions.  Positions and instruction pointers are 0-based as in the  *)
(* source; TLA+ sequences are 1-based, so data[pos] of the source is       *)
(* At(data, pos) here.  A Python string is a sequence of one-character     *)
(* strings.  Every Python value is a record [t |-> tag, v |-> payload].    *)
(***************************************************************************)
EXTENDS Integers, Sequences, FiniteSets, TLC

(***************************************************************************)
(* Python values.                                                          *)
(***************************************************************************)
None == "None"                          \* the end sentinel appended to data

NoneV == [t |-> "none", v |-> <<>>]
Str(s) == [t |-> "str", v |-> s]
List(xs) == [t |-> "list", v |-> xs]
BoolV(b) == [t |-> "bool", v |-> <<b>>]
\* a reference to a mutable list object owned by the grammar (a Keyword's
\* value); its current contents are heap[i]
Ref(i) == [t |-> "ref", v |-> <<i>>]


\* str.lower() on one character
Lower(c) == IF c = "A" THEN "a" ELSE IF c = "B" THEN "b" ELSE c

(***************************************************************************)
(* Grammar nodes (the classes compiler.py imports from parseit).           *)
(***************************************************************************)
AnyChar(cache, echars) ==
    [type |-> "AnyChar", children |-> <<>>, cache |-> cache, echars |-> echars]
StringBuilder(cache, echars, lower) ==
    [type |-> "StringBuilder", children |-> <<>>, cache |-> cache,
     echars |-> echars, lower |-> lower]
Literal(chars, ignore_case) ==
    [type |-> "Literal", children |-> <<>>, chars |-> chars,
     ignore_case |-> ignore_case]
Keyword(chars, value, ignore_case) ==
    [type |-> "Keyword", children |-> <<>>, chars |-> chars, value |-> value,
     ignore_case |-> ignore_case]
Opt(p, default) == [type |-> "Opt", children |-> <<p>>, default |-> default]
KeepLeft(left, right) == [type |-> "KeepLeft", children |-> <<left, right>>]
KeepRight(left, right) == [type |-> "KeepRight", children |-> <<left, right>>]
And(left, right) == [type |-> "And", children |-> <<left, right>>]
Concat(left, right) == [type |-> "Concat", children |-> <<left, right>>]
Or(left, right) == [type |-> "Or", children |-> <<left, right>>]
Choice(children) == [type |-> "Choice", children |-> children]
Many(p) == [type |-> "Many", children |-> <<p>>]
Many1(p) == [type |-> "Many1", children |-> <<p>>]
Map(p, func) == [type |-> "Map", children |-> <<p>>, func |-> func]
Lift(func, children) == [type |-> "Lift", children |-> children, func |-> func]
Between(p, envelope) == [type |-> "Between", children |-> <<p, envelope>>]
SepBy(p, sep) == [type |-> "SepBy", children |-> <<p, sep>>]
\* Forward nodes are compared by identity: id names the node, and the child
\* bound to it later with <= is kept in the grammar's bind table
Forward(id) == [type |-> "Forward", children |-> <<>>, id |-> id]

\* t.children of a node of grammar G
Children(G, t) == IF t.type = "Forward" THEN <<G.bind[t.id]>> ELSE t.children

(***************************************************************************)
(* Instructions.  by is not part of the source's Op: it records the path   *)
(* (child indices from the root) of the node whose lowering emitted the    *)
(* instruction, so that properties can speak of "the block of a node".     *)
(***************************************************************************)
Op(op, data, by) == [op |-> op, data |-> data, by |-> by]

NoArg == <<>>                           \* the operand None

\* a placeholder the lowerings of And, Concat, Choice and Lift put where a
\* conditional jump goes, before its offset is known
Marker(code, by) == [op |-> code, data |-> NoArg, by |-> by, unpatched |-> TRUE]
IsMarker(p) == "unpatched" \in DOMAIN p

\* "for p in tmp: if p is a marker: program.append(Op(code, length -
\* len(program) + extra)) else: program.append(p)": when tmp[i] is reached,
\* len(program) is the length program started with plus i - 1
Patch(tmp, program, length, extra) ==
    program \o
    [i \in 1..Len(tmp) |->
        IF IsMarker(tmp[i])
        THEN Op(tmp[i].op, length - (Len(program) + i - 1) + extra, tmp[i].by)
        ELSE tmp[i]]

(***************************************************************************)
(* comp.inner, one operator per node type.  Each takes the programs        *)
(* already compiled for the children and the path n of the node.           *)
(***************************************************************************)
LowerAnyChar(t, n) == <<Op("ANY_CHAR", [cache |-> t.cache, echars |-> t.echars], n)>>

LowerStringBuilder(t, n) ==
    <<Op("STRINGBUILDER",
         [cache |-> t.cache, echars |-> t.echars, lower |-> t.lower], n)>>

\* a faulty variant: the closing POP_POS emitted without the opening
\* PUSH_POS
LowerOptUnopened(child, n) ==
    child
    \o <<Op("JUMPIFSUCCESS", 2, n),
         Op("POP_POS", NoArg, n),
         Op("OPT", NoArg, n)>>

LowerOpt(child, n) ==
    <<Op("PUSH_POS", NoArg, n)>>
    \o child
    \o <<Op("JUMPIFSUCCESS", 2, n),
         Op("POP_POS", NoArg, n),
         Op("OPT", NoArg, n)>>

LowerKeepLeft(left, right, n) ==
    <<Op("CREATE_ACC", NoArg, n), Op("PUSH_POS", NoArg, n)>>
    \o left
    \o <<Op("JUMPIFFAILURE", Len(right) + 6, n), Op("PUSH", NoArg, n)>>
    \o right
    \o <<Op("JUMPIFFAILURE", 4, n),
         Op("POP", NoArg, n),
         Op("CLEAR_POS", NoArg, n),
         Op("JUMP", 2, n),
         Op("POP_POS", NoArg, n),
         Op("DELETE_ACC", NoArg, n)>>

\* a faulty variant: the offset over the right child written for a right
\* child of three instructions rather than computed from its length
LowerKeepRightHardCoded(left, right, n) ==
    <<Op("PUSH_POS", NoArg, n)>>
    \o left
    \o <<Op("JUMPIFFAILURE", 6, n)>>
    \o right
    \o <<Op("CLEAR_POS", NoArg, n), Op("JUMP", 2, n), Op("POP_POS", NoArg, n)>>

LowerKeepRight(left, right, n) ==
    <<Op("PUSH_POS", NoArg, n)>>
    \o left
    \o <<Op("JUMPIFFAILURE", Len(right) + 3, n)>>
    \o right
    \o <<Op("CLEAR_POS", NoArg, n), Op("JUMP", 2, n), Op("POP_POS", NoArg, n)>>

\* And and Concat differ in the instruction that closes the frame
LowerPair(left, right, closing, n) ==
    LET chunks == <<Op("CREATE_ACC", NoArg, n), Op("PUSH_POS", NoArg, n)>>
                  \o left
                  \o <<Marker("JUMPIFFAILURE", n), Op("PUSH", NoArg, n)>>
                  \o right
                  \o <<Marker("JUMPIFFAILURE", n),
                       Op("PUSH", NoArg, n),
                       Op(closing, [lower |-> 2], n),
                       Op("CLEAR_POS", NoArg, n),
                       Op("JUMP", 3, n)>>
    IN  Patch(chunks, <<>>, Len(chunks), 0)
        \o <<Op("POP_POS", NoArg, n), Op("DELETE_ACC", NoArg, n)>>

LowerAnd(left, right, n) == LowerPair(left, right, "LOAD_ACC", n)

LowerConcat(left, right, n) == LowerPair(left, right, "CONCAT_ACC", n)

LowerOr(left, right, n) ==
    <<Op("PUSH_POS", NoArg, n)>>
    \o left
    \o <<Op("JUMPIFSUCCESS", Len(right) + 5, n), Op("POP_PUSH_POS", NoArg, n)>>
    \o right
    \o <<Op("JUMPIFSUCCESS", 3, n),
         Op("POP_POS", NoArg, n),
         Op("JUMP", 2, n),
         Op("CLEAR_POS", NoArg, n)>>

\* "for c in t.children: tmp.extend(inner(c)); tmp.append(JUMPIFSUCCESS);
\* tmp.append(Op(POP_PUSH_POS, None))"
RECURSIVE ChoiceTmp(_, _)
ChoiceTmp(kids, n) ==
    IF kids = <<>> THEN <<>>
    ELSE Head(kids)
         \o <<Marker("JUMPIFSUCCESS", n), Op("POP_PUSH_POS", NoArg, n)>>
         \o ChoiceTmp(Tail(kids), n)

LowerChoice(kids, n) ==
    LET all == <<Op("PUSH_POS", NoArg, n)>> \o ChoiceTmp(kids, n)
        \* tmp.pop(); tmp.append(Op(POP_POS, None))
        tmp == SubSeq(all, 1, Len(all) - 1) \o <<Op("POP_POS", NoArg, n)>>
    IN  Patch(tmp, <<>>, Len(tmp), 1)
        \o <<Op("JUMP", 2, n), Op("CLEAR_POS", NoArg, n)>>

\* Many and Many1 differ in the minimum the closing LOAD_ACC asks for
LowerRepeat(child, lower, n) ==
    LET program == <<Op("CREATE_ACC", NoArg, n), Op("PUSH_POS", NoArg, n)>>
                   \o child
                   \o <<Op("JUMPIFFAILURE", 4, n),
                        Op("PUSH", NoArg, n),
                        Op("CLEAR_POS", NoArg, n)>>
    IN  program
        \o <<Op("JUMP", -Len(program) + 1, n),
             Op("POP_POS", NoArg, n),
             Op("LOAD_ACC", [lower |-> lower], n)>>

LowerMany(child, n) == LowerRepeat(child, 0, n)

LowerMany1(child, n) == LowerRepeat(child, 1, n)

LowerMap(child, t, n) == Append(child, Op("MAP", t.func, n))

\* "for c in t.children: tmp.extend(inner(c)); tmp.append(JUMPIFFAILURE);
\* tmp.append(Op(PUSH, None)); tmp.append(Op(CLEAR_POS, None));
\* tmp.append(Op(PUSH_POS, None))"
RECURSIVE LiftTmp(_, _)
LiftTmp(kids, n) ==
    IF kids = <<>> THEN <<>>
    ELSE Head(kids)
         \o <<Marker("JUMPIFFAILURE", n),
              Op("PUSH", NoArg, n),
              Op("CLEAR_POS", NoArg, n),
              Op("PUSH_POS", NoArg, n)>>
         \o LiftTmp(Tail(kids), n)

LowerLift(kids, t, n) ==
    LET all == LiftTmp(kids, n)
        tmp == SubSeq(all, 1, Len(all) - 1)             \* tmp.pop()
        program == <<Op("CREATE_ACC", NoArg, n), Op("PUSH_POS", NoArg, n)>>
    IN  Patch(tmp, program, Len(tmp) + 1, 4)
        \o <<Op("LOAD_ACC", [lower |-> Len(t.children)], n),
             Op("LIFT", t.func, n),
             Op("JUMP", 3, n),
             Op("POP_POS", NoArg, n),
             Op("DELETE_ACC", NoArg, n)>>

LowerLiteral(t, n) ==
    <<Op("LITERAL", [chars |-> t.chars, ignore_case |-> t.ignore_case], n)>>

LowerKeyword(t, n) ==
    <<Op("KEYWORD",
         [chars |-> t.chars, value |-> t.value, ignore_case |-> t.ignore_case], n)>>

\* a faulty variant: the FORWARD of a later visit carrying something that
\* is not the node the table is keyed by
LowerForwardAgainUnkeyed(t, n) == <<Op("FORWARD", 0, n)>>

LowerForwardAgain(t, n) == <<Op("FORWARD", t.id, n)>>

(***************************************************************************)
(* comp.  inner threads the two mutable locals of comp, seen and           *)
(* future_table, through the traversal in the order the source visits the  *)
(* children.  Python lists are objects: Forward returns the very list it   *)
(* stored in future_table, and Map appends to the list its child returned. *)
(* alias is the set of Forward ids whose table entry is the list returned, *)
(* so that an append to it shows in the table as it does in the source.    *)
(***************************************************************************)
\* the optimizer is not part of this repository's sources; the spec gives
\* only its contract (same matches, same values), which the identity meets
optimize(tree) == tree

Fresh(p, st) == [p |-> p, seen |-> st.seen, ft |-> st.ft, alias |-> {}]

RECURSIVE inner(_, _, _, _), InnerAll(_, _, _, _, _)
inner(G, t, n, st) ==
    LET ty == t.type
        \* the children's programs, compiled left to right
        rs == InnerAll(G, t.children, 1, n, st)
        c(k) == rs.ps[k]
    IN  CASE ty = "AnyChar" -> Fresh(LowerAnyChar(t, n), st)
          [] ty = "StringBuilder" -> Fresh(LowerStringBuilder(t, n), st)
          [] ty = "Opt" -> Fresh(LowerOpt(c(1), n), rs)
          [] ty = "KeepLeft" -> Fresh(LowerKeepLeft(c(1), c(2), n), rs)
          [] ty = "KeepRight" -> Fresh(LowerKeepRight(c(1), c(2), n), rs)
          [] ty = "And" -> Fresh(LowerAnd(c(1), c(2), n), rs)
          [] ty = "Concat" -> Fresh(LowerConcat(c(1), c(2), n), rs)
          [] ty = "Or" -> Fresh(LowerOr(c(1), c(2), n), rs)
          [] ty = "Choice" -> Fresh(LowerChoice(rs.ps, n), rs)
          [] ty = "Many" -> Fresh(LowerMany(c(1), n), rs)
          [] ty = "Many1" -> Fresh(LowerMany1(c(1), n), rs)
          [] ty = "Map" ->
                \* program = inner(t.children[0]); program.append(...)
                LET r == inner(G, t.children[1], Append(n, 1), st)
                    program == LowerMap(r.p, t, n)
                IN  [p |-> program, seen |-> r.seen, alias |-> r.alias,
                     ft |-> [f \in DOMAIN r.ft |->
                                IF f \in r.alias THEN program ELSE r.ft[f]]]
          [] ty = "Lift" -> Fresh(LowerLift(rs.ps, t, n), rs)
          [] ty = "Literal" -> Fresh(LowerLiteral(t, n), st)
          [] ty = "Keyword" -> Fresh(LowerKeyword(t, n), st)
          [] ty \in {"Between", "SepBy"} ->
                inner(G, t.children[1], Append(n, 1), st)
          [] ty = "Forward" ->
                IF t.id \in st.seen
                THEN Fresh(LowerForwardAgain(t, n), st)
                ELSE LET r == inner(G, G.bind[t.id], Append(n, 1),
                                    [st EXCEPT !.seen = @ \cup {t.id}])
                     IN  [p |-> r.p, seen |-> r.seen,
                          ft |-> (t.id :> r.p) @@ r.ft,
                          alias |-> r.alias \cup {t.id}]

\* inner on kids[k], kids[k+1], ... in this order
InnerAll(G, kids, k, n, st) ==
    IF k > Len(kids)
    THEN [ps |-> <<>>, seen |-> st.seen, ft |-> st.ft]
    ELSE LET r == inner(G, kids[k], Append(n, k), st)
             rest == InnerAll(G, kids, k + 1, n, [seen |-> r.seen, ft |-> r.ft])
         IN  [ps |-> <<r.p>> \o rest.ps, seen |-> rest.seen, ft |-> rest.ft]

\* comp(tree): the Runner's program and future_table
comp(G) ==
    LET r == inner(G, optimize(G.root), <<>>, [seen |-> {}, ft |-> <<>>])
    IN  [program |-> r.p, future_table |-> r.ft]

(***************************************************************************)
(* Runner.process: the instruction handlers.  A frame holds the locals of  *)
(* one activation of process: of names its program (0: Runner.program,     *)
(* f: future_table[f]); exc is the exception the handler raised, if any.   *)
(***************************************************************************)
SUCCESS == TRUE
ERROR == FALSE

MsgExpected(c, pos, got) == [t |-> "msg_expected", v |-> <<c, pos, got>>]
MsgAtLeast(lower, pos) == [t |-> "msg_atleast", v |-> <<lower, pos>>]
MsgExc(text) == [t |-> "msg_exc", v |-> <<text>>]
IsMsg(x) == x.t \in {"msg_expected", "msg_atleast", "msg_exc"}

\* data[k]; data ends with the sentinel None
At(data, k) == IF k + 1 \in DOMAIN data THEN data[k + 1] ELSE "IndexError"

NewFrame(of, pos) ==
    [of |-> of, ip |-> 0, acc |-> <<>>, pos_stack |-> <<>>, reg |-> NoneV,
     status |-> SUCCESS, pos |-> pos, exc |-> "none"]

Raise(f, name) == [f EXCEPT !.exc = name]
Last(s) == s[Len(s)]
ButLast(s) == SubSeq(s, 1, Len(s) - 1)

\* the loop of STRINGBUILDER: the position and the characters collected
RECURSIVE RunLoop(_, _, _, _, _)
RunLoop(data, pos, result, cache, echars) ==
    LET p == At(data, pos)
    IN  IF p = "\\" \/ p \in cache
        THEN IF p = "\\" /\ At(data, pos + 1) \in echars
             THEN RunLoop(data, pos + 2, Append(result, At(data, pos + 1)),
                          cache, echars)
             ELSE IF p \in cache
                  THEN RunLoop(data, pos + 1, Append(result, p), cache, echars)
                  ELSE [pos |-> pos, result |-> result]
        ELSE [pos |-> pos, result |-> result]

\* a faulty variant: STRINGBUILDER asking for more than lower items
DoStringBuilderStrict(f, args, data) ==
    LET r == RunLoop(data, f.pos, <<>>, args.cache, args.echars)
    IN  IF Len(r.result) > args.lower
        THEN [f EXCEPT !.status = SUCCESS, !.reg = Str(r.result), !.pos = r.pos]
        ELSE [f EXCEPT !.status = ERROR, !.reg = MsgAtLeast(args.lower, f.pos)]

DoStringBuilder(f, args, data) ==
    LET r == RunLoop(data, f.pos, <<>>, args.cache, args.echars)
    IN  IF Len(r.result) >= args.lower
        THEN [f EXCEPT !.status = SUCCESS, !.reg = Str(r.result), !.pos = r.pos]
        ELSE [f EXCEPT !.status = ERROR, !.reg = MsgAtLeast(args.lower, f.pos)]

DoAnyChar(f, args, data) ==
    LET p == At(data, f.pos)
    IN  IF p = "\\" /\ At(data, f.pos + 1) \in args.echars
        THEN [f EXCEPT !.status = SUCCESS, !.reg = Str(<<At(data, f.pos + 1)>>),
                       !.pos = f.pos + 2]
        ELSE IF p \in args.cache
             THEN [f EXCEPT !.status = SUCCESS, !.reg = Str(<<p>>),
                            !.pos = f.pos + 1]
             ELSE [f EXCEPT !.status = ERROR,
                            !.reg = MsgExpected("AnyChar", f.pos, p)]

\* a faulty variant: a mismatch leaves the cursor on the character that
\* differs
RECURSIVE MatchCharsNoRollback(_, _, _, _, _, _, _)
MatchCharsNoRollback(f, chars, i, pos, ignore_case, value, data) ==
    IF i > Len(chars)
    THEN [f EXCEPT !.status = SUCCESS, !.reg = value, !.pos = pos]
    ELSE LET n == At(data, pos)
         IN  IF ignore_case /\ n = None
             THEN Raise(f, "AttributeError")
             ELSE IF (IF ignore_case THEN Lower(n) ELSE n) # chars[i]
                  THEN [f EXCEPT !.status = ERROR,
                                 !.reg = MsgExpected(chars[i], pos, n),
                                 !.pos = pos]
                  ELSE MatchCharsNoRollback(f, chars, i + 1, pos + 1, ignore_case,
                                            value, data)

\* "for c in chars: n = data[pos]; if n(.lower()) != c: ... break; pos += 1
\* else: status = SUCCESS; reg = value".  None has no method lower.
RECURSIVE MatchChars(_, _, _, _, _, _, _)
MatchChars(f, chars, i, pos, ignore_case, value, data) ==
    IF i > Len(chars)
    THEN [f EXCEPT !.status = SUCCESS, !.reg = value, !.pos = pos]
    ELSE LET n == At(data, pos)
         IN  IF ignore_case /\ n = None
             THEN Raise(f, "AttributeError")
             ELSE IF (IF ignore_case THEN Lower(n) ELSE n) # chars[i]
                  THEN [f EXCEPT !.status = ERROR,
                                 !.reg = MsgExpected(chars[i], pos, n)]
                  ELSE MatchChars(f, chars, i + 1, pos + 1, ignore_case,
                                  value, data)

DoLiteral(f, args, data) ==
    MatchChars(f, args.chars, 1, f.pos, args.ignore_case, Str(args.chars), data)

DoKeyword(f, args, data) ==
    MatchChars(f, args.chars, 1, f.pos, args.ignore_case, args.value, data)

\* the three jumps set ip themselves ("ip += args; continue"); after every
\* other instruction the loop falls through to "ip += 1"
DoJumpIfFailure(f, args) ==
    IF f.status = ERROR THEN [f EXCEPT !.ip = f.ip + args]
    ELSE [f EXCEPT !.ip = f.ip + 1]

\* a faulty variant: JUMPIFSUCCESS testing the status the wrong way round
DoJumpIfSuccessInverted(f, args) ==
    IF f.status = ERROR THEN [f EXCEPT !.ip = f.ip + args]
    ELSE [f EXCEPT !.ip = f.ip + 1]

DoJumpIfSuccess(f, args) ==
    IF f.status = SUCCESS THEN [f EXCEPT !.ip = f.ip + args]
    ELSE [f EXCEPT !.ip = f.ip + 1]

DoJump(f, args) == [f EXCEPT !.ip = f.ip + args]

DoPushPos(f) == [f EXCEPT !.pos_stack = Append(@, f.pos)]

DoClearPos(f) ==
    IF f.pos_stack = <<>> THEN Raise(f, "IndexError")
    ELSE [f EXCEPT !.pos_stack = ButLast(@)]

DoPopPos(f) ==
    IF f.pos_stack = <<>> THEN Raise(f, "IndexError")
    ELSE [f EXCEPT !.pos = Last(f.pos_stack), !.pos_stack = ButLast(@)]

DoPopPushPos(f) ==
    IF f.pos_stack = <<>> THEN Raise(f, "IndexError")
    ELSE [f EXCEPT !.pos = Last(f.pos_stack)]

DoPush(f) ==
    IF f.acc = <<>> THEN Raise(f, "IndexError")
    ELSE [f EXCEPT !.acc[Len(f.acc)] = Append(@, f.reg), !.status = TRUE]

\* a POP that drops the stashed value without loading it into reg
DoPopKeepsReg(f) ==
    IF f.acc = <<>> \/ Last(f.acc) = <<>> THEN Raise(f, "IndexError")
    ELSE [f EXCEPT !.acc[Len(f.acc)] = ButLast(@), !.status = TRUE]

DoPop(f) ==
    IF f.acc = <<>> \/ Last(f.acc) = <<>> THEN Raise(f, "IndexError")
    ELSE [f EXCEPT !.reg = Last(Last(f.acc)),
                   !.acc[Len(f.acc)] = ButLast(@),
                   !.status = TRUE]

DoLoadAcc(f, args) ==
    IF f.acc = <<>> THEN Raise(f, "IndexError")
    ELSE LET lacc == Last(f.acc)
             g == [f EXCEPT !.acc = ButLast(@)]
         IN  IF Len(lacc) >= args.lower
             THEN [g EXCEPT !.status = SUCCESS, !.reg = List(lacc)]
             ELSE [g EXCEPT !.status = ERROR,
                            !.reg = MsgAtLeast(args.lower, f.pos)]

\* x = lacc[0]; x.append(lacc[1]) changes the list x in place: a list built
\* during this run is held by nothing else, a Keyword's value is held by the
\* program's operand (and the grammar node) and lives in the heap
DoConcatAcc(f, args, heap) ==
    IF f.acc = <<>> THEN [f |-> Raise(f, "IndexError"), heap |-> heap]
    ELSE LET lacc == Last(f.acc)
             g == [f EXCEPT !.acc = ButLast(@)]
         IN  IF Len(lacc) >= args.lower
             THEN LET x == lacc[1]
                  IN  IF x.t = "ref"
                      THEN [f |-> [g EXCEPT !.status = SUCCESS, !.reg = x],
                            heap |-> [heap EXCEPT ![x.v[1]] = Append(@, lacc[2])]]
                      ELSE IF x.t = "list"
                      THEN [f |-> [g EXCEPT !.status = SUCCESS,
                                            !.reg = List(Append(x.v, lacc[2]))],
                            heap |-> heap]
                      ELSE [f |-> [g EXCEPT !.status = SUCCESS, !.reg = List(lacc)],
                            heap |-> heap]
             ELSE [f |-> [g EXCEPT !.status = ERROR,
                                   !.reg = MsgAtLeast(args.lower, f.pos)],
                   heap |-> heap]

DoCreateAcc(f) == [f EXCEPT !.acc = Append(@, <<>>)]

DoDeleteAcc(f) ==
    IF f.acc = <<>> THEN Raise(f, "IndexError")
    ELSE [f EXCEPT !.acc = ButLast(@)]

\* The functions grammars give to Map and Lift, by name; the result is
\* [ok, val]: the value returned, or the message of the exception raised.
\*   wrap: lambda x: [x]          boom: raises Exception("boom")
\*   pack: lambda *a: list(a)
\*   accumulate: Parser.accumulate
\* (wrap called with other than one argument raises a TypeError)

\* bool(v) of a value that is not a reference
Truthy(v) ==
    CASE v.t = "none" -> FALSE
      [] v.t = "bool" -> v.v[1]
      [] OTHER -> v.v # <<>>

\* Parser.accumulate(first, rest); list.extend takes the items of a list and
\* the characters of a string, and raises a TypeError on True
accumulate(first_, rest) ==
    LET results == IF Truthy(first_) THEN <<first_>> ELSE <<>>
    IN  IF ~Truthy(rest) THEN [ok |-> TRUE, val |-> List(results)]
        ELSE IF rest.t = "list" THEN [ok |-> TRUE, val |-> List(results \o rest.v)]
        ELSE IF rest.t = "str"
        THEN [ok |-> TRUE,
              val |-> List(results \o [i \in 1..Len(rest.v) |-> Str(<<rest.v[i]>>)])]
        ELSE [ok |-> FALSE, val |-> MsgExc("TypeError")]

Call(func, argv) ==
    CASE func = "wrap" /\ Len(argv) = 1 -> [ok |-> TRUE, val |-> List(<<argv[1]>>)]
      [] func = "pack" -> [ok |-> TRUE, val |-> List(argv)]
      [] func = "accumulate" /\ Len(argv) = 2 -> accumulate(argv[1], argv[2])
      [] func = "boom" -> [ok |-> FALSE, val |-> MsgExc("boom")]
      [] OTHER -> [ok |-> FALSE, val |-> MsgExc("TypeError")]

DoMap(f, args) ==
    IF f.status = SUCCESS
    THEN LET r == Call(args, <<f.reg>>)
         IN  IF r.ok THEN [f EXCEPT !.reg = r.val]
             ELSE [f EXCEPT !.status = ERROR, !.reg = r.val]
    ELSE f

\* a faulty variant: LIFT passing the list of values as one argument
DoLiftPacked(f, args) ==
    LET r == Call(args, <<f.reg>>)
    IN  IF r.ok THEN [f EXCEPT !.reg = r.val, !.status = SUCCESS]
        ELSE [f EXCEPT !.status = ERROR, !.reg = r.val]

\* func(*reg) inside the try: unpacking a value that is no sequence raises too
DoLift(f, args) ==
    LET r == IF f.reg.t = "list" THEN Call(args, f.reg.v)
             ELSE [ok |-> FALSE, val |-> MsgExc("TypeError")]
    IN  IF r.ok THEN [f EXCEPT !.reg = r.val, !.status = SUCCESS]
        ELSE [f EXCEPT !.status = ERROR, !.reg = r.val]

DoOpt(f) ==
    IF f.status = ERROR THEN [f EXCEPT !.status = SUCCESS, !.reg = NoneV] ELSE f

\* a faulty variant: FORWARD keeping old_pos whatever the nested process did
DoForwardReturnOldPos(f, status, reg, new_pos) ==
    [f EXCEPT !.status = status, !.reg = reg]

\* a faulty variant: FORWARD taking new_pos whatever the nested status is
DoForwardReturnNewPos(f, status, reg, new_pos) ==
    [f EXCEPT !.status = status, !.reg = reg, !.pos = new_pos]

\* what FORWARD does once the nested process has returned (status, reg, new_pos)
DoForwardReturn(f, status, reg, new_pos) ==
    [f EXCEPT !.status = status, !.reg = reg,
              !.pos = IF status = ERROR THEN f.pos ELSE new_pos]

(***************************************************************************)
(* The state: a grammar and its compiled Runner, one input, and the stack  *)
(* of activations of Runner.process (the top-level call and one per        *)
(* FORWARD being executed).                                                *)
(***************************************************************************)
VARIABLES
    G,              \* the grammar: [root, bind, objs]
    program,        \* Runner.program
    future_table,   \* Runner.future_table
    data,           \* list(data) + [None]
    heap,           \* contents of the grammar's mutable list objects
    frames,         \* activations of process, innermost last
    result,         \* what the top-level call has done so far
    run,            \* how many times __call__ has been entered
    first,          \* what the first run returned
    steps,          \* instructions executed in this run
    mon,            \* history: per activation, the blocks now being executed
    ev,             \* history: the blocks the last step has left
    ctx,            \* the interpreter's Ctx: [error_pos, error_msg]
    sets            \* history: the calls of Ctx.set so far, as <<pos, msg>>

vars == <<G, program, future_table, data, heap, frames, result, run, first,
          steps, mon, ev, ctx, sets>>

\* a run is cut off after MaxSteps instructions (a Many around a child that
\* succeeds without consuming never ends)
MaxSteps == 130

Running == [state |-> "running", status |-> SUCCESS, reg |-> NoneV, pos |-> 0]
Returned(status, reg, pos) ==
    [state |-> "returned", status |-> status, reg |-> reg, pos |-> pos]
Raised(name) == [state |-> name, status |-> ERROR, reg |-> NoneV, pos |-> 0]

\* a value with the list objects it refers to written out
RECURSIVE Deref(_, _), DerefAll(_, _)
Deref(x, h) ==
    IF x.t = "ref" THEN List(DerefAll(h[x.v[1]], h))
    ELSE IF x.t = "list" THEN List(DerefAll(x.v, h))
    ELSE x
DerefAll(xs, h) ==
    IF xs = <<>> THEN <<>> ELSE <<Deref(Head(xs), h)>> \o DerefAll(Tail(xs), h)


(***************************************************************************)
(* History variables.  The block of a node is the run of instructions its  *)
(* lowering and the lowerings of its descendants emitted: those whose by   *)
(* has the node's path as a prefix.  mon keeps, for every activation, the  *)
(* blocks the instruction pointer is inside, outermost first, each with    *)
(* what held when it was entered and what its last direct child did; ev    *)
(* lists the blocks the last step left, innermost first, each with the     *)
(* status, result and cursor it was left with.  Nothing the machine does   *)
(* reads mon or ev.                                                        *)
(***************************************************************************)
IsPrefix(a, b) == Len(a) <= Len(b) /\ SubSeq(b, 1, Len(a)) = a

\* the node of grammar Gr at a path
RECURSIVE NodeAt(_, _, _)
NodeAt(Gr, t, path) ==
    IF path = <<>> THEN t
    ELSE NodeAt(Gr, Children(Gr, t)[Head(path)], Tail(path))

\* a block entered in the state of frame f; kids will list the runs of its
\* direct children, in the order they end, calls counts the calls of the
\* node's function
Entry(n, f) ==
    [n |-> n, node |-> NodeAt(G, G.root, n), pos0 |-> f.pos,
     ps0 |-> Len(f.pos_stack), acc0 |-> Len(f.acc), kids |-> <<>>, calls |-> 0]

\* the values of the successful runs among kids
RECURSIVE Vals(_)
Vals(kids) ==
    IF kids = <<>> THEN <<>>
    ELSE IF Last(kids).status = SUCCESS
         THEN Append(Vals(ButLast(kids)), Last(kids).reg)
         ELSE Vals(ButLast(kids))

\* the function of a Map or Lift block raised on the values of its children
FuncRaised(e) ==
    \/ /\ e.node.type = "Map"
       /\ e.kids # <<>> /\ Last(e.kids).status = SUCCESS
       /\ ~Call(e.node.func, <<Last(e.kids).reg>>).ok
    \/ /\ e.node.type = "Lift"
       /\ Len(Vals(e.kids)) = Len(e.node.children)
       /\ ~Call(e.node.func, Vals(e.kids)).ok

\* block e is left in the state of frame f
Exit(e, f) ==
    [n |-> e.n, node |-> e.node, pos0 |-> e.pos0, ps0 |-> e.ps0, acc0 |-> e.acc0,
     kids |-> e.kids, calls |-> e.calls,
     status |-> f.status, reg |-> f.reg, pos |-> f.pos,
     ps1 |-> Len(f.pos_stack), acc1 |-> Len(f.acc),
     \* the failure it ends with is one a function raised, in it or below it
     raised |-> f.status = ERROR
                /\ (FuncRaised(e) \/ (e.kids # <<>> /\ Last(e.kids).raised))]

\* the notes of a block's children without what those noted themselves
RECURSIVE Flat(_)
Flat(kids) ==
    IF kids = <<>> THEN <<>>
    ELSE Append(Flat(ButLast(kids)), [Last(kids) EXCEPT !.kids = <<>>])

\* what the block around a block left as e notes of it
Note(e) ==
    [k |-> Last(e.n), pos0 |-> e.pos0, status |-> e.status, reg |-> e.reg,
     pos |-> e.pos, raised |-> e.raised, n |-> e.n, ps |-> e.ps1 - e.ps0,
     acc |-> e.acc1 - e.acc0, kids |-> Flat(e.kids)]

\* leave the innermost blocks until keep are left; the block below each one
\* left notes what its child did, by how much it left the two stacks of the
\* activation longer, and what the child's own children did
RECURSIVE Close(_, _, _, _)
Close(open, keep, f, evs) ==
    IF Len(open) <= keep THEN [open |-> open, ev |-> evs]
    ELSE LET e == Exit(Last(open), f)
             rest == ButLast(open)
             noted == IF rest = <<>> THEN rest
                      ELSE [rest EXCEPT ![Len(rest)].kids = Append(@, Note(e))]
         IN  Close(noted, keep, f, Append(evs, e))

\* how many leading path elements all instructions of a program share
BaseLen(code) ==
    LET first_by == code[1].by
        Shared(k) == \A i \in 1..Len(code) : IsPrefix(SubSeq(first_by, 1, k), code[i].by)
    IN  CHOOSE k \in 0..Len(first_by) :
            Shared(k) /\ \A j \in (k + 1)..Len(first_by) : ~Shared(j)

\* the blocks of an activation after a step that left its frame as f
Track(m, code, f) ==
    LET inside == f.ip >= 0 /\ f.ip < Len(code)
        by == IF inside THEN code[f.ip + 1].by ELSE <<>>
        keep == IF inside
                THEN Cardinality({j \in 1..Len(m.open) : IsPrefix(m.open[j].n, by)})
                ELSE 0
        c == Close(m.open, keep, f, <<>>)
        more == IF inside THEN Len(by) - m.base + 1 - Len(c.open) ELSE 0
    IN  [m |-> [base |-> m.base,
                open |-> c.open \o
                         [i \in 1..more |->
                            Entry(SubSeq(by, 1, m.base + Len(c.open) + i - 1), f)]],
         ev |-> c.ev]

\* the blocks of an activation that starts as frame f
Enter(code, f) == Track([base |-> BaseLen(code), open |-> <<>>], code, f).m

Cur == Last(frames)
Code(f) == IF f.of = 0 THEN program ELSE future_table[f.of]
\* program[ip]; a negative ip indexes from the end, as in Python
Ins == LET c == Code(Cur)
       IN  IF Cur.ip >= 0 THEN c[Cur.ip + 1] ELSE c[Len(c) + Cur.ip + 1]
Fetch(op) ==
    /\ frames # <<>>
    /\ steps < MaxSteps
    /\ Cur.ip < Len(Code(Cur))
    /\ -Cur.ip <= Len(Code(Cur))
    /\ Ins.op = op

\* the blocks of the current activation once the instruction at ip has been
\* executed: LIFT calls func(*reg), MAP calls args(reg) if status is SUCCESS
Called(m) ==
    IF /\ Ins.op = "LIFT" \/ (Ins.op = "MAP" /\ Cur.status = SUCCESS)
       /\ m.open # <<>> /\ Last(m.open).n = Ins.by
    THEN [m EXCEPT !.open[Len(m.open)].calls = @ + 1]
    ELSE m

\* the frame f2 a handler produced becomes the current one; a jump has set
\* ip, anything else falls through to "ip += 1"; an exception ends the call
Commit(f2, h2, jump) ==
    /\ steps' = steps + 1
    /\ heap' = h2
    /\ IF f2.exc # "none"
       THEN /\ frames' = <<>>
            /\ result' = Raised(f2.exc)
            /\ mon' = <<>>
            /\ ev' = <<>>
       ELSE LET f3 == IF jump THEN f2 ELSE [f2 EXCEPT !.ip = @ + 1]
                tr == Track(Called(Last(mon)), Code(Cur), f3)
            IN  /\ frames' = [frames EXCEPT ![Len(frames)] = f3]
                /\ result' = result
                /\ mon' = [mon EXCEPT ![Len(mon)] = tr.m]
                /\ ev' = tr.ev
    /\ UNCHANGED <<G, program, future_table, data, run, first, ctx, sets>>

StringBuilderOp ==
    Fetch("STRINGBUILDER") /\ Commit(DoStringBuilder(Cur, Ins.data, data), heap, FALSE)
AnyCharOp == Fetch("ANY_CHAR") /\ Commit(DoAnyChar(Cur, Ins.data, data), heap, FALSE)
LiteralOp == Fetch("LITERAL") /\ Commit(DoLiteral(Cur, Ins.data, data), heap, FALSE)
KeywordOp == Fetch("KEYWORD") /\ Commit(DoKeyword(Cur, Ins.data, data), heap, FALSE)
JumpIfFailureOp ==
    Fetch("JUMPIFFAILURE") /\ Commit(DoJumpIfFailure(Cur, Ins.data), heap, TRUE)
JumpIfSuccessOp ==
    Fetch("JUMPIFSUCCESS") /\ Commit(DoJumpIfSuccess(Cur, Ins.data), heap, TRUE)
JumpOp == Fetch("JUMP") /\ Commit(DoJump(Cur, Ins.data), heap, TRUE)
PushPosOp == Fetch("PUSH_POS") /\ Commit(DoPushPos(Cur), heap, FALSE)
ClearPosOp == Fetch("CLEAR_POS") /\ Commit(DoClearPos(Cur), heap, FALSE)
PopPosOp == Fetch("POP_POS") /\ Commit(DoPopPos(Cur), heap, FALSE)
PopPushPosOp == Fetch("POP_PUSH_POS") /\ Commit(DoPopPushPos(Cur), heap, FALSE)
PushOp == Fetch("PUSH") /\ Commit(DoPush(Cur), heap, FALSE)
PopOp == Fetch("POP") /\ Commit(DoPop(Cur), heap, FALSE)
LoadAccOp == Fetch("LOAD_ACC") /\ Commit(DoLoadAcc(Cur, Ins.data), heap, FALSE)
ConcatAccOp ==
    /\ Fetch("CONCAT_ACC")
    /\ LET r == DoConcatAcc(Cur, Ins.data, heap) IN Commit(r.f, r.heap, FALSE)
CreateAccOp == Fetch("CREATE_ACC") /\ Commit(DoCreateAcc(Cur), heap, FALSE)
DeleteAccOp == Fetch("DELETE_ACC") /\ Commit(DoDeleteAcc(Cur), heap, FALSE)
MapOp == Fetch("MAP") /\ Commit(DoMap(Cur, Ins.data), heap, FALSE)
LiftOp == Fetch("LIFT") /\ Commit(DoLift(Cur, Ins.data), heap, FALSE)
OptOp == Fetch("OPT") /\ Commit(DoOpt(Cur), heap, FALSE)

\* FORWARD, first half: self.process(pos, data, future_table[args], future_table)
ForwardOp ==
    /\ Fetch("FORWARD")
    /\ steps' = steps + 1
    /\ IF Ins.data \in DOMAIN future_table
       THEN /\ frames' = Append(frames, NewFrame(Ins.data, Cur.pos))
            /\ result' = result
            /\ mon' = Append(mon, Enter(future_table[Ins.data],
                                        NewFrame(Ins.data, Cur.pos)))
       ELSE /\ frames' = <<>>
            /\ result' = Raised("KeyError")
            /\ mon' = <<>>
    /\ ev' = <<>>
    /\ UNCHANGED <<G, program, future_table, data, heap, run, first, ctx, sets>>

\* "while ip < len(program)" ends in a nested activation: return (status, reg,
\* pos) to the FORWARD of the caller, second half
ForwardReturn ==
    /\ Len(frames) > 1
    /\ Cur.ip >= Len(Code(Cur))
    /\ LET caller == frames[Len(frames) - 1]
           f2 == DoForwardReturn(caller, Cur.status, Cur.reg, Cur.pos)
           f3 == [f2 EXCEPT !.ip = @ + 1]
           tr == Track(mon[Len(mon) - 1], Code(caller), f3)
       IN  /\ frames' = Append(SubSeq(frames, 1, Len(frames) - 2), f3)
           /\ mon' = Append(SubSeq(mon, 1, Len(mon) - 2), tr.m)
           /\ ev' = tr.ev
    /\ UNCHANGED <<G, program, future_table, data, heap, result, run, first, steps, ctx, sets>>

\* the top-level activation ends: __call__ returns (status, reg, pos)
Return ==
    /\ Len(frames) = 1
    /\ Cur.ip >= Len(Code(Cur))
    /\ frames' = <<>>
    /\ result' = Returned(Cur.status, Cur.reg, Cur.pos)
    /\ first' = IF run = 1
                THEN Returned(Cur.status, Deref(Cur.reg, heap), Cur.pos)
                ELSE first
    /\ mon' = <<>>
    /\ ev' = <<>>
    /\ UNCHANGED <<G, program, future_table, data, heap, run, steps, ctx, sets>>

\* the same Runner is called again on the same input
CallAgain ==
    /\ result.state = "returned"
    /\ run = 1
    /\ G.objs # <<>>
    /\ run' = 2
    /\ frames' = <<NewFrame(0, 0)>>
    /\ result' = Running
    /\ steps' = 0
    /\ mon' = <<Enter(program, NewFrame(0, 0))>>
    /\ ev' = <<>>
    /\ UNCHANGED <<G, program, future_table, data, heap, first, ctx, sets>>

\* the same tree is compiled again and the new Runner called on the same input
CompileAgain ==
    /\ result.state = "returned"
    /\ run = 1
    /\ G.objs # <<>>
    /\ run' = 3
    /\ program' = comp(G).program
    /\ future_table' = comp(G).future_table
    /\ frames' = <<NewFrame(0, 0)>>
    /\ result' = Running
    /\ steps' = 0
    /\ mon' = <<Enter(comp(G).program, NewFrame(0, 0))>>
    /\ ev' = <<>>
    /\ UNCHANGED <<G, data, heap, first, ctx, sets>>

\* Ctx.__init__: no failure recorded yet
Ctx == [error_pos |-> -1, error_msg |-> NoneV]

\* a faulty variant: Ctx.set keeping the first message of a position
setStrict(c, pos, msg) ==
    IF pos > c.error_pos THEN [error_pos |-> pos, error_msg |-> msg] ELSE c

\* Ctx.set(pos, msg)
set(c, pos, msg) ==
    IF pos >= c.error_pos THEN [error_pos |-> pos, error_msg |-> msg] ELSE c

\* a faulty variant: __call__ passing the input on without the sentinel
StartNoSentinel(c) ==
    /\ G = c.G
    /\ program = comp(c.G).program
    /\ future_table = comp(c.G).future_table
    /\ data = c.data
    /\ heap = c.G.objs
    /\ frames = <<NewFrame(0, 0)>>
    /\ result = Running
    /\ run = 1
    /\ first = Running
    /\ steps = 0
    /\ mon = <<Enter(comp(c.G).program, NewFrame(0, 0))>>
    /\ ev = <<>>
    /\ ctx = Ctx
    /\ sets = <<>>

\* Runner = comp(tree) followed by Runner.__call__(data): data = list(data);
\* data.append(None); process(0, data, program, future_table)
Start(c) ==
    /\ G = c.G
    /\ program = comp(c.G).program
    /\ future_table = comp(c.G).future_table
    /\ data = Append(c.data, None)
    /\ heap = c.G.objs
    /\ frames = <<NewFrame(0, 0)>>
    /\ result = Running
    /\ run = 1
    /\ first = Running
    /\ steps = 0
    /\ mon = <<Enter(comp(c.G).program, NewFrame(0, 0))>>
    /\ ev = <<>>
    /\ ctx = Ctx
    /\ sets = <<>>

(***************************************************************************)
(* The tree-walking interpreter of parseit/__init__.py.  process(pos, data, *)
(* ctx) of a node returns (pos, value), raises, or does not come back; it   *)
(* is [ok |-> "return", pos, val], [ok |-> "raise"] or [ok |-> "never"].    *)
(***************************************************************************)
Return_(pos, val) == [ok |-> "return", pos |-> pos, val |-> val]
Raise_ == [ok |-> "raise", pos |-> 0, val |-> NoneV]
Never_ == [ok |-> "never", pos |-> 0, val |-> NoneV]

RECURSIVE process(_, _, _, _), ChoiceProcess(_, _, _, _, _),
          ManyProcess(_, _, _, _, _), LiftProcess(_, _, _, _, _, _)

\* Literal.process: every character of chars in turn
LiteralProcess(t, pos, d, val) ==
    IF \A i \in 1..Len(t.chars) : At(d, pos + i - 1) = t.chars[i]
    THEN Return_(pos + Len(t.chars), val)
    ELSE Raise_

\* Choice.process from child i on: the first child that returns
ChoiceProcess(Gr, t, i, pos, d) ==
    IF i > Len(t.children) THEN Raise_
    ELSE LET r == process(Gr, t.children[i], pos, d)
         IN  IF r.ok = "raise" THEN ChoiceProcess(Gr, t, i + 1, pos, d) ELSE r

\* Many.process with results collected so far; a child that returns without
\* moving pos returns so again for ever
ManyProcess(Gr, p, pos, d, results) ==
    LET r == process(Gr, p, pos, d)
    IN  IF r.ok = "raise" THEN Return_(pos, List(results))
        ELSE IF r.ok = "never" \/ r.pos = pos THEN Never_
        ELSE ManyProcess(Gr, p, r.pos, d, Append(results, r.val))

\* Lift.process from child i on
LiftProcess(Gr, t, i, pos, d, results) ==
    IF i > Len(t.children)
    THEN LET c == Call(t.func, results)
         IN  IF c.ok THEN Return_(pos, c.val) ELSE Raise_
    ELSE LET r == process(Gr, t.children[i], pos, d)
         IN  IF r.ok = "return"
             THEN LiftProcess(Gr, t, i + 1, r.pos, d, Append(results, r.val))
             ELSE r

process(Gr, t, pos, d) ==
    CASE t.type = "Literal" -> LiteralProcess(t, pos, d, Str(t.chars))
      [] t.type = "Keyword" -> LiteralProcess(t, pos, d, t.value)
      [] t.type = "Choice" -> ChoiceProcess(Gr, t, 1, pos, d)
      [] t.type = "Many" -> ManyProcess(Gr, t.children[1], pos, d, <<>>)
      [] t.type = "KeepLeft" ->
            LET l == process(Gr, t.children[1], pos, d)
            IN  IF l.ok # "return" THEN l
                ELSE LET r == process(Gr, t.children[2], l.pos, d)
                     IN  IF r.ok # "return" THEN r ELSE Return_(r.pos, l.val)
      [] t.type = "KeepRight" ->
            LET l == process(Gr, t.children[1], pos, d)
            IN  IF l.ok # "return" THEN l ELSE process(Gr, t.children[2], l.pos, d)
      [] t.type = "Opt" ->
            LET r == process(Gr, t.children[1], pos, d)
            IN  IF r.ok = "raise" THEN Return_(pos, t.default) ELSE r
      [] t.type = "Map" ->
            LET r == process(Gr, t.children[1], pos, d)
            IN  IF r.ok # "return" THEN r
                ELSE LET c == Call(t.func, <<r.val>>)
                     IN  IF c.ok THEN Return_(r.pos, c.val) ELSE Raise_
      [] t.type = "Lift" -> LiftProcess(Gr, t, 1, pos, d, <<>>)
      [] t.type = "Forward" -> process(Gr, Gr.bind[t.id], pos, d)

\* the node classes both engines implement
RECURSIVE InBoth(_)
InBoth(t) ==
    /\ t.type \in {"Literal", "Keyword", "Choice", "KeepLeft", "KeepRight", "Opt",
                   "Many", "Map", "Lift", "Forward"}
    /\ t.type \in {"Literal", "Keyword"} => ~t.ignore_case
    /\ \A i \in 1..Len(t.children) : InBoth(t.children[i])

Both(Gr) == InBoth(Gr.root) /\ \A i \in 1..Len(Gr.bind) : InBoth(Gr.bind[i])

(***************************************************************************)
(* The grammars and inputs explored.                                       *)
(***************************************************************************)
MaxLen == 3         \* longest input given to a grammar of combinators
MaxRunLen == 4      \* longest input given to a character matcher alone

\* the strings over alphabet S of length at most n
Strings(S, n) == UNION {[1..k -> S] : k \in 0..n}

\* a grammar without Forward nodes and without mutable values
Plain(t) == [root |-> t, bind |-> <<>>, objs |-> <<>>]

LitA == Literal(<<"a">>, FALSE)
LitB == Literal(<<"b">>, FALSE)

\* x under one combinator, in each position a combinator has
Wrap(x) ==
    {Opt(x, NoneV), Opt(x, Str(<<"d">>)), Many(x), Many1(x),
     Map(x, "wrap"), Map(x, "boom"),
     Or(x, LitB), Or(LitA, x), Choice(<<x, LitA, LitB>>),
     KeepLeft(x, LitB), KeepLeft(LitA, x), KeepRight(x, LitB), KeepRight(LitA, x),
     And(x, LitB), And(LitA, x), Concat(x, LitB), Concat(LitA, x),
     Lift("pack", <<LitA, x>>), Lift("boom", <<LitA, x>>),
     Lift("pack", <<LitA, x, LitA>>),
     Between(x, LitB), SepBy(x, LitB)}

\* x under a combinator that sets a checkpoint and goes on after a failure
Recovering(x) ==
    {Opt(x, NoneV), Many(x), Many1(x), Or(x, LitB), Choice(<<x, LitA, LitB>>)}

\* x under a combinator whose outcome shows what x left behind
Outer(x) == Recovering(x) \cup {KeepRight(x, LitB), Lift("pack", <<x, LitB>>)}

\* x as the later child of a sequence
Sequenced(x) ==
    {KeepLeft(LitA, x), KeepRight(LitA, x), And(LitA, x), Concat(LitA, x),
     Lift("pack", <<LitA, x>>), Lift("boom", <<LitA, x>>),
     Lift("pack", <<LitA, x, LitA>>)}

Leaves == {LitA, LitB, Keyword(<<"a">>, Str(<<"k">>), FALSE)}

Trees ==
    LET one == UNION {Wrap(l) : l \in Leaves}
        two == UNION {Outer(w) : w \in UNION {Wrap(l) : l \in {LitA, LitB}}}
        three == UNION {Recovering(q) :
                          q \in UNION {Sequenced(Opt(l, NoneV)) : l \in {LitA, LitB}}}
        \* a right child with checkpoints and accumulator frames of its own
        four == UNION {{KeepLeft(LitA, w), KeepRight(LitA, w)} : w \in Wrap(LitB)}
        \* a left child that ends with an Opt whose child matched
        five == UNION {{KeepLeft(q, LitA), KeepRight(q, LitA), And(q, LitA),
                        Concat(q, LitA)} :
                          q \in {Lift("pack", <<LitA, Opt(LitB, NoneV)>>)}}
    IN  Leaves \cup one \cup two \cup three \cup four \cup five

\* character matchers, as in test_manual_escaped_string
Runs ==
    {StringBuilder({"a", "b", "c"}, {"\""}, lower) : lower \in 0..2}
        \cup {AnyChar({"a", "b", "c"}, {"\""})}

\* matchers of a constant, with and without ignore_case
Constants ==
    UNION {{Literal(<<"a", "b">>, ic), Literal(<<"A">>, ic),
            Keyword(<<"a", "b">>, BoolV(TRUE), ic)} : ic \in BOOLEAN}

\* JsonArray without elements and separators: a Forward that is bound to
\* "[" >> Opt(itself) << "]", its value wrapped in a list
Brackets ==
    [root |-> Forward(1),
     bind |-> <<Map(KeepRight(Literal(<<"[">>, FALSE),
                              KeepLeft(Opt(Forward(1), NoneV),
                                       Literal(<<"]">>, FALSE))), "wrap")>>,
     objs |-> <<>>]

\* grammars whose Keyword carries a list, which is a mutable object
Mutable ==
    {[root |-> t, bind |-> <<>>, objs |-> <<<<>>>>] :
        t \in {Concat(Keyword(<<"a">>, Ref(1), FALSE), LitB),
               Many(Concat(Keyword(<<"a">>, Ref(1), FALSE), LitB))}}

\* Parser.sep_by: Lift(self.accumulate) * Opt(self) * Many(sep >> self)
sep_by(p, sep) == Lift("accumulate", <<Opt(p, NoneV), Many(KeepRight(sep, p))>>)

\* elements separated by "b", as JsonValue.sep_by(Comma); the value of an
\* element is a string, the empty string or the empty list
Elements ==
    {Keyword(<<"a">>, v, FALSE) : v \in {Str(<<"k">>), Str(<<>>), List(<<>>)}}

SepBys == {sep_by(p, LitB) : p \in Elements}

\* grammars in which a Forward node is visited more than once: after its
\* first occurrence (directly, or under a Lift, a Map or a Between), as an
\* alternative or in sequence; and two Forward nodes bound to each other
Twice ==
    LET F == Forward(1)
        roots == {Or(F, F), KeepRight(F, F), Or(Lift("boom", <<F>>), F),
                  Or(Map(F, "wrap"), F), KeepRight(Between(F, LitB), F),
                  Choice(<<F, F, F>>)}
        bodies == {LitA, Opt(LitA, NoneV), Map(LitA, "boom"), KeepRight(LitA, LitB),
                   Many1(LitA)}
    IN  {[root |-> r, bind |-> <<b>>, objs |-> <<>>] : r \in roots, b \in bodies}
          \cup {[root |-> Map(F, "wrap"),
                 bind |-> <<KeepRight(LitA, Opt(F, NoneV))>>, objs |-> <<>>],
                [root |-> F,
                 bind |-> <<KeepRight(LitA, Opt(Forward(2), NoneV)),
                            KeepRight(LitB, Opt(F, NoneV))>>, objs |-> <<>>]}

Cases ==
    {[G |-> Plain(t), data |-> d] : t \in Trees, d \in Strings({"a", "b"}, MaxLen)}
        \cup {[G |-> Plain(t), data |-> d] :
                t \in Runs, d \in Strings({"a", "b", "\\", "\""}, MaxRunLen)}
        \cup {[G |-> Plain(t), data |-> d] :
                t \in Constants, d \in Strings({"a", "A", "b"}, MaxLen)}
        \cup {[G |-> Brackets, data |-> d] : d \in Strings({"[", "]"}, MaxRunLen)}
        \cup {[G |-> g, data |-> d] : g \in Mutable, d \in Strings({"a", "b"}, MaxLen)}
        \cup {[G |-> Plain(t), data |-> d] :
                t \in SepBys, d \in Strings({"a", "b"}, MaxLen)}
        \cup {[G |-> g, data |-> d] : g \in Twice, d \in Strings({"a", "b"}, MaxLen)}

Init == \E c \in Cases : Start(c)

Next ==
    \/ StringBuilderOp \/ AnyCharOp \/ LiteralOp \/ KeywordOp
    \/ JumpIfFailureOp \/ JumpIfSuccessOp \/ JumpOp
    \/ PushPosOp \/ ClearPosOp \/ PopPosOp \/ PopPushPosOp
    \/ PushOp \/ PopOp \/ LoadAccOp \/ ConcatAccOp \/ CreateAccOp \/ DeleteAccOp
    \/ MapOp \/ LiftOp \/ OptOp
    \/ ForwardOp \/ ForwardReturn \/ Return
    \/ CallAgain \/ CompileAgain

Spec == Init /\ [][Next]_vars

\* the bodies of a repetition: some consume input whenever they succeed,
\* some can succeed without consuming
Bodies ==
    {LitA, Keyword(<<"a">>, Str(<<"k">>), FALSE), AnyChar({"a"}, {}),
     StringBuilder({"a"}, {}, 1), Or(LitA, LitB), Choice(<<LitA, LitB, LitA>>),
     KeepLeft(LitA, LitB), KeepRight(LitA, LitB), And(LitA, LitB),
     Concat(LitA, LitB), Map(LitA, "wrap"), Lift("pack", <<LitA, LitB>>),
     Many1(LitA),
     Opt(LitA, NoneV), Many(LitA), StringBuilder({"a"}, {}, 0)}

Repetitions == UNION {{Many(x), Many1(x)} : x \in Bodies}

\* the runs whose end is examined: repetitions, and one grammar of each
\* other kind
Ending ==
    {[G |-> Plain(t), data |-> d] :
        t \in Repetitions, d \in Strings({"a", "b"}, MaxLen)}
        \cup {[G |-> Brackets, data |-> d] : d \in Strings({"[", "]"}, 2)}
        \cup {[G |-> g, data |-> d] : g \in Mutable, d \in Strings({"a", "b"}, 2)}

\* Runner.process is one loop in one thread: while an instruction is left to
\* execute, the loop executes it (and the caller's next call follows a
\* returned one), so a step that stays possible is taken
FairSpec == (\E c \in Ending : Start(c)) /\ [][Next]_vars /\ WF_vars(Next)

(***************************************************************************)
(* The failure record of the tree-walking interpreter.  Parser.__call__    *)
(* creates one Ctx per parse; every leaf that fails calls ctx.set with the *)
(* position it started at and its message, then raises.  Which leaves are  *)
(* tried where is up to the enclosing combinators, so a parse is any       *)
(* sequence of failing tries of leaves at positions of the input.          *)
(***************************************************************************)
\* f"Expected {self.chars}."
Expected(chars) == [t |-> "expected", v |-> chars]

\* the longest sequence of failing tries followed
MaxSets == 4

TriedLeaves ==
    {LitA, LitB, Literal(<<"a", "b">>, FALSE), Keyword(<<"b", "a">>, Str(<<"k">>), FALSE)}

Tried ==
    {[G |-> Plain(Choice(<<LitA, LitB>>)), data |-> d] : d \in Strings({"a", "b"}, 2)}

\* Literal.process (Keyword.process through super()) failing at pos:
\* msg = f"Expected {self.chars}."; ctx.set(old, msg); raise Exception(msg)
SetOp ==
    /\ Len(sets) < MaxSets
    /\ \E t \in TriedLeaves, pos \in 0..(Len(data) - 1) :
          /\ process(G, t, pos, data).ok = "raise"
          /\ ctx' = set(ctx, pos, Expected(t.chars))
          /\ sets' = Append(sets, <<pos, Expected(t.chars)>>)
    /\ UNCHANGED <<G, program, future_table, data, heap, frames, result, run,
                   first, steps, mon, ev>>

CtxSpec == (\E c \in Tried : Start(c)) /\ [][SetOp]_vars


(***************************************************************************)
(* Properties.  They are stated over the blocks open now and the blocks    *)
(* the last step left.                                                     *)
(***************************************************************************)
Events == {ev[i] : i \in 1..Len(ev)}

OpenBlocks == UNION {{mon[a].open[j] : j \in 1..Len(mon[a].open)} : a \in 1..Len(mon)}

\* <<parent, child>> for every open block and the open block directly inside it
OpenPairs ==
    UNION {{<<mon[a].open[j], mon[a].open[j + 1]>> : j \in 1..(Len(mon[a].open) - 1)} :
             a \in 1..Len(mon)}

IsAlt(e) == e.node.type \in {"Or", "Choice"}
IsRep(e) == e.node.type \in {"Many", "Many1"}

\* C1: in an Or or Choice, when an alternative has ended with FAILURE, the
\* next alternative starts at the cursor the failed one was started at, and
\* after the last alternative the alternation ends at that cursor.
AltRollback ==
    /\ \A pr \in OpenPairs :
         (IsAlt(pr[1]) /\ pr[1].kids # <<>> /\ Last(pr[1].kids).status = ERROR)
            => pr[2].pos0 = Last(pr[1].kids).pos0
    /\ \A e \in Events :
         (IsAlt(e) /\ e.kids # <<>> /\ Last(e.kids).status = ERROR)
            => e.pos = Last(e.kids).pos0

\* run i of kids is alternative i, it succeeded, and the runs before it are
\* the alternatives before it, all failed
FirstSuccess(kids, i) ==
    /\ kids[i].k = i /\ kids[i].status = SUCCESS
    /\ \A j \in 1..(i - 1) : kids[j].k = j /\ kids[j].status = ERROR

\* C2: in an Or or Choice, when alternative i succeeds after every earlier
\* alternative failed, the alternation ends with SUCCESS, the value and the
\* end cursor of alternative i, and no later alternative is entered.
OrderedChoice ==
    /\ \A e \in Events :
         IsAlt(e) => \A i \in 1..Len(e.kids) :
            FirstSuccess(e.kids, i) =>
                /\ e.status = SUCCESS
                /\ e.reg = e.kids[i].reg
                /\ e.pos = e.kids[i].pos
                /\ Len(e.kids) = i
    /\ \A b \in OpenBlocks :
         IsAlt(b) => \A i \in 1..Len(b.kids) : FirstSuccess(b.kids, i) => Len(b.kids) = i
    /\ \A pr \in OpenPairs :
         IsAlt(pr[1]) => \A i \in 1..Len(pr[1].kids) : pr[1].kids[i].status = ERROR

\* an alternation has ended on the success of an alternative that is neither
\* its first nor its last
OrderedChoiceSeen ==
    \E e \in Events :
        /\ IsAlt(e)
        /\ \E i \in 2..(Len(e.node.children) - 1) :
              i <= Len(e.kids) /\ FirstSuccess(e.kids, i)

\* C3: Many ends with SUCCESS, the list of the values of the successful
\* child runs in order, and the cursor held before the first failed child
\* attempt; Many1 does the same, except that with no successful child run it
\* ends with FAILURE and the cursor unmoved.
ManyResult ==
    \A e \in Events :
        IsRep(e) =>
            LET n == Len(e.kids) - 1
            IN  /\ e.kids # <<>>
                /\ Last(e.kids).status = ERROR
                /\ \A j \in 1..n : e.kids[j].status = SUCCESS
                /\ IF e.node.type = "Many1" /\ n = 0
                   THEN e.status = ERROR /\ e.pos = e.pos0
                   ELSE /\ e.status = SUCCESS
                        /\ e.reg = List(Vals(e.kids))
                        /\ e.pos = Last(e.kids).pos0

\* the end of input after n pieces of item lengths ls, from cursor p
RECURSIVE Sum(_)
Sum(ls) == IF ls = <<>> THEN 0 ELSE Head(ls) + Sum(Tail(ls))

\* at cursor q stands an item of length l: one character of the set, or a
\* backslash followed by a character of the escape set
IsItem(node, q, l) ==
    \/ l = 1 /\ At(data, q) \in node.cache
    \/ l = 2 /\ At(data, q) = "\\" /\ At(data, q + 1) \in node.echars

\* ls are the lengths of the items of the longest run of items from cursor p
LongestRun(node, p, ls) ==
    /\ \A i \in 1..Len(ls) : IsItem(node, p + Sum(SubSeq(ls, 1, i - 1)), ls[i])
    /\ \A l \in {1, 2} : ~IsItem(node, p + Sum(ls), l)

\* what the items of lengths ls from cursor p contribute
Contributed(p, ls) ==
    [i \in 1..Len(ls) |-> At(data, p + Sum(SubSeq(ls, 1, i)) - 1)]

\* C4: STRINGBUILDER started at cursor p takes the longest run of items; it
\* ends with SUCCESS iff the run has at least the configured minimum of
\* items, and then with the contributed characters as value and the cursor
\* after the run; set {a,b,c} with escape " on a\"b gives a"b and cursor 4.
RunMatch ==
    \A e \in Events :
        e.node.type = "StringBuilder" =>
            /\ \E ls \in Strings({1, 2}, Len(data)) :
                 /\ LongestRun(e.node, e.pos0, ls)
                 /\ (e.status = SUCCESS) <=> (Len(ls) >= e.node.lower)
                 /\ e.status = SUCCESS =>
                       /\ e.reg = Str(Contributed(e.pos0, ls))
                       /\ e.pos = e.pos0 + Sum(ls)
            /\ (data = <<"a", "\\", "\"", "b", None>> /\ e.pos0 = 0) =>
                 /\ e.status = SUCCESS
                 /\ e.reg = Str(<<"a", "\"", "b">>)
                 /\ e.pos = 4

\* STRINGBUILDER has run on a\"b
RunMatchSeen ==
    \E e \in Events :
        /\ e.node.type = "StringBuilder"
        /\ data = <<"a", "\\", "\"", "b", None>>
        /\ e.pos0 = 0
        /\ e.status = SUCCESS

\* C5: the run of the bracket grammar on [[]] ends, with SUCCESS, a nested
\* list and the cursor at the end of the input; its run on [[] ends, with
\* FAILURE and a diagnostic placed at offset 3, the end of the input.  A run
\* ends when no exception escapes, it is never stuck, and it executes fewer
\* than MaxSteps instructions.
BracketsResult ==
    /\ (G = Brackets /\ data \in {<<"[", "[", "]", "]", None>>, <<"[", "[", "]", None>>}) =>
         /\ result.state \in {"running", "returned"}
         /\ steps < MaxSteps
         /\ result.state = "running" => ENABLED Next
    /\ (G = Brackets /\ data = <<"[", "[", "]", "]", None>> /\ result.state = "returned") =>
         /\ result.status = SUCCESS
         /\ result.reg = List(<<List(<<NoneV>>)>>)
         /\ result.pos = 4
    /\ (G = Brackets /\ data = <<"[", "[", "]", None>> /\ result.state = "returned") =>
         /\ result.status = ERROR
         /\ result.reg = MsgExpected("]", 3, None)

\* the run of the bracket grammar on [[]] has returned from a nested call
BracketsSeen ==
    /\ G = Brackets
    /\ data = <<"[", "[", "]", "]", None>>
    /\ result.state = "returned"

\* C6: a second run of the same program, and a run of a second compilation
\* of the same tree, on the same input return the triple the first run
\* returned, and a run leaves the values the operands hold as they were.
Deterministic ==
    /\ (run # 1 /\ result.state = "returned") =>
            Returned(result.status, Deref(result.reg, heap), result.pos) = first
    /\ result.state = "returned" => heap = G.objs

\* C7: no exception escapes the run, and a run that ends in FAILURE returns
\* a diagnostic.
NoException ==
    /\ result.state \in {"running", "returned"}
    /\ (result.state = "returned" /\ result.status = ERROR) => IsMsg(result.reg)

\* C8: on a grammar of the node classes both engines implement, the machine
\* ends with SUCCESS iff the interpreter returns, and then with the value and
\* the cursor the interpreter returns.
SameAsInterpreter ==
    (Both(G) /\ result.state = "returned") =>
        LET r == process(G, G.root, 0, data)
        IN  /\ (result.status = SUCCESS) <=> (r.ok = "return")
            /\ result.status = SUCCESS =>
                  /\ result.reg = r.val
                  /\ result.pos = r.pos

\* C9: when its child fails, Opt ends with SUCCESS and the default of its
\* node as result.
OptDefault ==
    \A e \in Events :
        (e.node.type = "Opt" /\ e.kids # <<>> /\ Last(e.kids).status = ERROR)
            => e.status = SUCCESS /\ e.reg = e.node.default

\* a failed child run that ended on an exception of a function
EndedRaised(kids) == kids # <<>> /\ Last(kids).status = ERROR /\ Last(kids).raised

\* C10: when the function of a Map or Lift raises on the values of its
\* children, the node ends with FAILURE, the message of the exception as
\* diagnostic and the cursor where the children left it; an Opt, Or, Choice,
\* Many or Many1 above it then puts the cursor back to where the failed child
\* was started, as after a match failure.
TransformFailure ==
    /\ \A e \in Events :
         FuncRaised(e) =>
            /\ e.status = ERROR
            /\ e.reg = MsgExc("boom")
            /\ e.pos = Last(e.kids).pos
    /\ \A e \in Events :
         (e.node.type \in {"Opt", "Or", "Choice", "Many", "Many1"} /\ EndedRaised(e.kids))
            => e.pos = Last(e.kids).pos0
    /\ \A pr \in OpenPairs :
         (IsAlt(pr[1]) /\ EndedRaised(pr[1].kids)) => pr[2].pos0 = Last(pr[1].kids).pos0

\* the number of elements p.sep_by(sep) matches in d: an optional "a", then
\* "b" "a" as often as it follows
RECURSIVE Following(_, _)
Following(d, pos) ==
    IF At(d, pos) = "b" /\ At(d, pos + 1) = "a" THEN 1 + Following(d, pos + 2) ELSE 0

Matched(d) == IF At(d, 0) = "a" THEN 1 + Following(d, 1) ELSE Following(d, 0)

\* C11: p.sep_by(sep) returns the sequence of the values of all the elements
\* matched, the first one included and whatever the value of an element is,
\* and the empty sequence when no element is matched; in the interpreter and
\* in the machine.
SepByAccumulates ==
    (G.root \in SepBys /\ result.state = "returned") =>
        LET n == Matched(data)
            want == List([i \in 1..n |-> G.root.children[1].children[1].value])
            r == process(G, G.root, 0, data)
        IN  /\ r.ok = "return" /\ r.val = want
            /\ result.status = SUCCESS /\ result.reg = want

\* a grammar with a Forward node
RECURSIVE HasForward(_)
HasForward(t) ==
    t.type = "Forward" \/ \E i \in 1..Len(t.children) : HasForward(t.children[i])

StackBalance ==
    /\ \A e \in Events : e.ps1 = e.ps0 /\ e.acc1 = e.acc0
    /\ (Len(frames) = 1 /\ Cur.ip >= Len(Code(Cur))) =>
          Cur.pos_stack = <<>> /\ Cur.acc = <<>>

\* C14: when a child of a Lift fails, whichever it is, the Lift ends with
\* FAILURE, the diagnostic of that child, its accumulator frame closed, and
\* the cursor where it was before the first child was started.
LiftRollback ==
    \A e \in Events :
        (e.node.type = "Lift" /\ e.kids # <<>> /\ Last(e.kids).status = ERROR) =>
            /\ e.status = ERROR
            /\ e.reg = Last(e.kids).reg
            /\ e.acc1 = e.acc0
            /\ e.pos = e.pos0

\* C15: when the left child of a KeepLeft or KeepRight fails, or the right
\* one after the left one succeeded, the node ends with FAILURE, the
\* diagnostic of the failing child, and the cursor where it was before the
\* left child was started.
SequenceRollback ==
    \A e \in Events :
        (e.node.type \in {"KeepLeft", "KeepRight"}
            /\ e.kids # <<>> /\ Last(e.kids).status = ERROR) =>
            /\ e.status = ERROR
            /\ e.reg = Last(e.kids).reg
            /\ e.pos = e.pos0

\* C16: when both children succeed, KeepLeft ends with SUCCESS and the value
\* of its left child, KeepRight with SUCCESS and the value of its right
\* child, both with the cursor where the right child ended, whatever the
\* right child pushed and popped meanwhile.
SequenceValue ==
    \A e \in Events :
        (e.node.type \in {"KeepLeft", "KeepRight"}
            /\ Len(e.kids) = 2
            /\ e.kids[1].status = SUCCESS /\ e.kids[2].status = SUCCESS) =>
            /\ e.status = SUCCESS
            /\ e.reg = (IF e.node.type = "KeepLeft" THEN e.kids[1].reg ELSE e.kids[2].reg)
            /\ e.pos = e.kids[2].pos

\* a KeepLeft and a KeepRight ended after both children succeeded, the right
\* child being one with an accumulator frame and checkpoints of its own and
\* a value other than the left one's
SequenceValueSeen ==
    /\ G.root.type \in {"KeepLeft", "KeepRight"}
    /\ \E e \in Events :
         /\ e.n = <<>>
         /\ Len(e.kids) = 2
         /\ e.kids[1].status = SUCCESS /\ e.kids[2].status = SUCCESS
         /\ e.node.children[2].type \in {"Many", "And", "Lift", "KeepLeft", "Or"}
         /\ e.kids[2].pos > e.kids[2].pos0
         /\ e.kids[1].reg # e.kids[2].reg

\* the value Concat is to give for the values l and r of its children: l
\* with r appended when l is a sequence (the same object when l is one the
\* grammar owns), the pair otherwise
Appended(l, r, reg, h) ==
    CASE l.t = "list" -> reg = List(Append(l.v, r))
      [] l.t = "ref" -> reg = l /\ h[l.v[1]] # <<>> /\ Last(h[l.v[1]]) = r
      [] OTHER -> reg = List(<<l, r>>)

\* C17: when both children succeed, And gives the sequence of the two
\* values, and Concat gives the left value with the right one appended when
\* the left value is a sequence, the sequence of the two values otherwise;
\* when a child fails, both end with FAILURE, the cursor where it was before
\* the left child, and the accumulator frame closed.
PairValue ==
    \A e \in Events :
        e.node.type \in {"And", "Concat"} =>
            /\ (Len(e.kids) = 2 /\ e.kids[1].status = SUCCESS
                    /\ e.kids[2].status = SUCCESS) =>
                  /\ e.status = SUCCESS
                  /\ e.node.type = "And" => e.reg = List(<<e.kids[1].reg, e.kids[2].reg>>)
                  /\ e.node.type = "Concat" =>
                        Appended(e.kids[1].reg, e.kids[2].reg, e.reg, heap)
            /\ (e.kids # <<>> /\ Last(e.kids).status = ERROR) =>
                  /\ e.status = ERROR
                  /\ e.pos = e.pos0
                  /\ e.acc1 = e.acc0

\* C18: when every alternative of an Or or Choice fails, the node ends with
\* FAILURE, the diagnostic of the last alternative, and the cursor where it
\* was before the first alternative was started.
AltExhausted ==
    \A e \in Events :
        (e.node.type \in {"Or", "Choice"}
            /\ Len(e.kids) = Len(e.node.children)
            /\ \A i \in 1..Len(e.kids) : e.kids[i].status = ERROR) =>
            /\ e.status = ERROR
            /\ e.reg = Last(e.kids).reg
            /\ e.pos = e.pos0

\* C19: when the child of an Opt fails, the Opt ends with SUCCESS and the
\* cursor where it was before the child was started, also after a child
\* that fails with the cursor advanced.
OptRollback ==
    \A e \in Events :
        (e.node.type = "Opt" /\ e.kids # <<>> /\ Last(e.kids).status = ERROR) =>
            /\ e.status = SUCCESS
            /\ e.pos = e.pos0

IsLeaf(e) == e.node.type \in {"AnyChar", "StringBuilder", "Literal", "Keyword"}

\* C20: an ANY_CHAR, STRINGBUILDER, LITERAL or KEYWORD instruction that ends
\* with FAILURE leaves the cursor where it was when the instruction started.
LeafFailure ==
    \A e \in Events : (IsLeaf(e) /\ e.status = ERROR) => e.pos = e.pos0

\* a Literal or Keyword of two characters failed on its second character
LeafFailureSeen ==
    \E e \in Events :
        /\ e.node.type \in {"Literal", "Keyword"}
        /\ e.status = ERROR
        /\ Len(e.node.chars) = 2
        /\ e.reg = MsgExpected(e.node.chars[2], e.pos0 + 1, At(data, e.pos0 + 1))

\* the programs the Runner holds: its program and the table's sub-programs
Programs == {program} \cup {future_table[f] : f \in DOMAIN future_table}

IsJump(p) == p.op \in {"JUMP", "JUMPIFSUCCESS", "JUMPIFFAILURE"}

\* the indices (from 0) of the block of the node that emitted code[i + 1]
Block(code, i) == {j \in 0..(Len(code) - 1) : IsPrefix(code[i + 1].by, code[j + 1].by)}

\* C21: every jump of every program comp produced, at index i with operand
\* d, has 0 <= i + d <= len(program) and lands inside the block of the node
\* that emitted it or exactly at its end, at any depth; and the instruction
\* pointer of every activation is within 0..len(program) at all times.
JumpTargets ==
    /\ \A code \in Programs : \A i \in 0..(Len(code) - 1) :
          IsJump(code[i + 1]) =>
             LET target == i + code[i + 1].data
                 block == Block(code, i)
             IN  /\ 0 <= target /\ target <= Len(code)
                 /\ \E j \in block : target = j \/ target = j + 1
    /\ \A k \in 1..Len(frames) :
          0 <= frames[k].ip /\ frames[k].ip <= Len(Code(frames[k]))

\* the backward jump of a repetition below the root has been taken (its
\* frame holds a value) and a forward jump of it has led out of the loop
JumpTargetsSeen ==
    /\ frames # <<>> /\ Cur.of = 0
    /\ \E i \in 0..(Len(program) - 1) :
         /\ program[i + 1].op = "JUMP" /\ program[i + 1].data < 0
         /\ program[i + 1].by # <<>>
         /\ Cur.ip = i + 1             \* the POP_POS after the loop
         /\ Cur.status = ERROR
         /\ Cur.acc # <<>> /\ Last(Cur.acc) # <<>>

\* an instruction is about to be executed
AtInstruction == frames # <<>> /\ 0 <= Cur.ip /\ Cur.ip < Len(Code(Cur))

\* C22: the machine never executes CLEAR_POS, POP_POS or POP_PUSH_POS on an
\* empty position stack, never PUSH, POP, LOAD_ACC, CONCAT_ACC or DELETE_ACC
\* on an empty accumulator stack, and never POP on an empty accumulator
\* frame; no run ends on the IndexError of such a pop.
NoUnderflow ==
    /\ AtInstruction =>
          /\ Ins.op \in {"CLEAR_POS", "POP_POS", "POP_PUSH_POS"} => Cur.pos_stack # <<>>
          /\ Ins.op \in {"PUSH", "POP", "LOAD_ACC", "CONCAT_ACC", "DELETE_ACC"} =>
                Cur.acc # <<>>
          /\ Ins.op = "POP" => Last(Cur.acc) # <<>>
    /\ result # Raised("IndexError")

\* inside the activation of a FORWARD, which starts on empty stacks, a
\* POP_POS is about to take the only checkpoint and a POP the only value
NoUnderflowSeen ==
    /\ Len(frames) >= 2
    /\ AtInstruction
    /\ \/ Ins.op = "POP_POS" /\ Len(Cur.pos_stack) = 1
       \/ Ins.op = "POP" /\ Len(Cur.acc) = 1 /\ Len(Last(Cur.acc)) = 1

\* the children of a node that comp.inner visits
Visited(t) == IF t.type \in {"Between", "SepBy"} THEN <<t.children[1]>> ELSE t.children

\* how many Forward nodes with identity f comp.inner meets in tree t, not
\* counting what is below a Forward
RECURSIVE Occurrences(_, _)
Occurrences(t, f) ==
    IF t.type = "Forward" THEN (IF t.id = f THEN 1 ELSE 0)
    ELSE Sum([i \in 1..Len(Visited(t)) |-> Occurrences(Visited(t)[i], f)])

\* the Forward identities reachable from the root: those met in the root
\* tree, and in the trees bound to reachable ones
RECURSIVE Reach(_)
Reach(ids) ==
    LET more == {f \in DOMAIN G.bind :
                    \/ Occurrences(G.root, f) > 0
                    \/ \E g \in ids : Occurrences(G.bind[g], f) > 0}
    IN  IF more \subseteq ids THEN ids ELSE Reach(ids \cup more)

Reachable == Reach({})

\* the FORWARD instructions of the program that carry f
Calls(f) == {i \in 1..Len(program) : program[i].op = "FORWARD" /\ program[i].data = f}

\* C23: after comp, the table has an entry for every Forward node reachable
\* from the root; the first visit of a Forward node compiles its child in
\* place and every later visit emits one FORWARD instruction carrying the
\* node, so the program holds one FORWARD of a node for each of its
\* occurrences but one; every FORWARD instruction of the program and of the
\* table's sub-programs carries a key of the table.
ForwardCompiled ==
    /\ DOMAIN future_table = Reachable
    /\ \A f \in Reachable :
          Cardinality(Calls(f)) + 1 =
             Occurrences(G.root, f)
               + Sum([g \in 1..Len(G.bind) |->
                        IF g \in Reachable THEN Occurrences(G.bind[g], f) ELSE 0])
    /\ \A code \in Programs : \A i \in 1..Len(code) :
          code[i].op = "FORWARD" => code[i].data \in DOMAIN future_table

\* a program with two FORWARD instructions, and a run inside a FORWARD
ForwardCompiledSeen ==
    /\ \E f \in DOMAIN future_table : Cardinality(Calls(f)) >= 2
    /\ Len(frames) >= 2

\* the activation that executes the FORWARD the current activation serves
Caller == frames[Len(frames) - 1]

\* C24: a FORWARD runs the stored sub-program from the cursor of its caller
\* on an empty position stack and an empty accumulator stack; when the
\* nested run returns, the two stacks of the caller are what they were, its
\* status and result are those of the nested run, and its cursor is the
\* nested end cursor after SUCCESS and what it was before the call after
\* FAILURE.
ForwardReentry ==
    [][/\ (frames # <<>> /\ Len(frames') = Len(frames) + 1) =>
            /\ SubSeq(frames', 1, Len(frames)) = frames
            /\ Last(frames').of = Ins.data
            /\ Last(frames').ip = 0
            /\ Last(frames').pos = Cur.pos
            /\ Last(frames').pos_stack = <<>>
            /\ Last(frames').acc = <<>>
       /\ (Len(frames) >= 2 /\ Len(frames') = Len(frames) - 1) =>
            /\ Last(frames').pos_stack = Caller.pos_stack
            /\ Last(frames').acc = Caller.acc
            /\ Last(frames').status = Cur.status
            /\ Last(frames').reg = Cur.reg
            /\ Last(frames').pos = (IF Cur.status = SUCCESS THEN Cur.pos ELSE Caller.pos)
      ]_vars

\* a nested run is about to return FAILURE with its cursor advanced and a
\* checkpoint left on its own stack, to a caller that holds a checkpoint
ForwardReentrySeen ==
    /\ Len(frames) >= 2
    /\ Cur.ip >= Len(Code(Cur))
    /\ Cur.status = ERROR
    /\ Cur.pos > Caller.pos
    /\ Caller.pos_stack # <<>>

\* the indices k of the reads data[k] of the STRINGBUILDER loop from pos on:
\* "p = data[pos]", and "data[pos + 1]" when p is a backslash
RECURSIVE RunReads(_, _, _)
RunReads(pos, cache, echars) ==
    LET p == At(data, pos)
    IN  {pos}
        \cup (IF p = "\\" THEN {pos + 1} ELSE {})
        \cup (IF p = "\\" /\ At(data, pos + 1) \in echars
              THEN RunReads(pos + 2, cache, echars)
              ELSE IF p \in cache THEN RunReads(pos + 1, cache, echars) ELSE {})

\* the reads of LITERAL and KEYWORD: "data[pos]" for each character of the
\* text until one differs
RECURSIVE CharReads(_, _, _, _)
CharReads(chars, i, pos, ignore_case) ==
    IF i > Len(chars) THEN {}
    ELSE LET n == At(data, pos)
         IN  {pos} \cup
             (IF n = None \/ (IF ignore_case THEN Lower(n) ELSE n) # chars[i] THEN {}
              ELSE CharReads(chars, i + 1, pos + 1, ignore_case))

\* the indices of data the instruction about to be executed reads
Reads ==
    CASE Ins.op = "STRINGBUILDER" -> RunReads(Cur.pos, Ins.data.cache, Ins.data.echars)
      [] Ins.op = "ANY_CHAR" ->
            {Cur.pos} \cup (IF At(data, Cur.pos) = "\\" THEN {Cur.pos + 1} ELSE {})
      [] Ins.op \in {"LITERAL", "KEYWORD"} ->
            CharReads(Ins.data.chars, 1, Cur.pos, Ins.data.ignore_case)
      [] OTHER -> {}

\* C25: with the input of length n stored before one end sentinel at index
\* n, every read data[k] of the machine has 0 <= k <= n and the cursor of
\* every activation is within 0..n, the look-ahead data[pos + 1] of ANY_CHAR
\* and STRINGBUILDER and texts longer than the rest of the input included.
SentinelBound ==
    LET n == Len(data) - 1
    IN  /\ n >= 0 /\ data[n + 1] = None
        /\ \A i \in 1..Len(frames) : 0 <= frames[i].pos /\ frames[i].pos <= n
        /\ result.state = "returned" => 0 <= result.pos /\ result.pos <= n
        /\ AtInstruction => \A k \in Reads : 0 <= k /\ k <= n

\* a character matcher has looked ahead from a backslash that is the last
\* character of the input, or a text of two characters has been compared
\* with the last character of the input and the sentinel
SentinelBoundSeen ==
    \E e \in Events :
        /\ Len(data) >= 2
        /\ e.pos0 = Len(data) - 2
        /\ \/ e.node.type \in {"AnyChar", "StringBuilder"} /\ At(data, e.pos0) = "\\"
           \/ /\ e.node.type \in {"Literal", "Keyword"}
              /\ Len(e.node.chars) = 2 /\ At(data, e.pos0) = e.node.chars[1]
              /\ e.status = ERROR

\* the positions passed to Ctx.set so far
SetPositions == {sets[i][1] : i \in 1..Len(sets)}

\* the greatest of a non-empty set of positions
Rightmost(S) == CHOOSE m \in S : \A k \in S : k <= m

\* the last call of Ctx.set made with position m
LastAt(m) == CHOOSE i \in 1..Len(sets) :
                /\ sets[i][1] = m
                /\ \A j \in (i + 1)..Len(sets) : sets[j][1] # m

\* C26: rightmost failure tracking.  After any sequence of Ctx.set(pos, msg)
\* calls of one parse, error_pos is the greatest pos passed so far (-1 when
\* there was no call), error_msg is the message of the most recent call made
\* with that greatest pos (None when there was no call), and no call makes
\* error_pos smaller.
RightmostFailure ==
    /\ [](IF sets = <<>>
          THEN ctx = [error_pos |-> -1, error_msg |-> NoneV]
          ELSE /\ ctx.error_pos = Rightmost(SetPositions)
               /\ ctx.error_msg = sets[LastAt(Rightmost(SetPositions))][2])
    /\ [][ctx'.error_pos >= ctx.error_pos]_vars

\* C26 happens: a failure further left was reported after the rightmost one
\* and left the record alone, and two failures with different messages were
\* reported at the rightmost position
RightmostFailureSeen ==
    /\ Len(sets) >= 3
    /\ \E i, j, k \in 1..Len(sets) :
          /\ i < j /\ sets[i][1] = sets[j][1] /\ sets[i][2] # sets[j][2]
          /\ sets[i][1] = ctx.error_pos
          /\ sets[k][1] < ctx.error_pos
          /\ k > i
    /\ sets[Len(sets)][1] < ctx.error_pos

\* the paths at which Forward f was compiled inline: those of a Forward f
\* with an instruction emitted beneath it
Inlined(f) ==
    UNION {UNION {{SubSeq(c[i].by, 1, k) :
                     k \in {k \in 0..(Len(c[i].by) - 1) :
                              LET t == NodeAt(G, G.root, SubSeq(c[i].by, 1, k))
                              IN  t.type = "Forward" /\ t.id = f}} :
                  i \in 1..Len(c)} :
           c \in Programs}

\* the instructions of code emitted for the child bound to the Forward at
\* path q (by the child or by a node beneath it)
ChildCode(code, q) ==
    LET Beneath(ins) == IsPrefix(Append(q, 1), ins.by)
    IN  SelectSeq(code, Beneath)

\* C27: ForwardTable entries are not aliased by enclosing lowerings.  After
\* comp has returned, the sub-program stored for each Forward node is exactly
\* the instruction sequence compiled for its bound child, as it stands where
\* the child was compiled inline: it holds nothing but instructions emitted
\* for the child, all of them, and no instruction of an enclosing node has
\* been appended to it.
TableUnaliased ==
    \A f \in DOMAIN future_table :
        /\ Cardinality(Inlined(f)) = 1
        /\ \A q \in Inlined(f) :
              /\ ChildCode(future_table[f], q) = future_table[f]
              /\ \A c \in Programs : Len(ChildCode(c, q)) <= Len(future_table[f])

\* what block e has noted of its children and of their children
Noted(e) ==
    {e.kids[i] : i \in 1..Len(e.kids)}
        \cup UNION {{e.kids[i].kids[j] : j \in 1..Len(e.kids[i].kids)} :
                     i \in 1..Len(e.kids)}

\* a noted run is a run of Forward f: of its child's program compiled
\* inline, or of a FORWARD instruction
RunOf(r, f) ==
    LET t == NodeAt(G, G.root, r.n) IN t.type = "Forward" /\ t.id = f
InlineRun(r, f) == RunOf(r, f) /\ r.n \in Inlined(f)
ForwardRun(r, f) == RunOf(r, f) /\ r.n \notin Inlined(f)

\* what a run gives: status, result, cursor afterwards, and what it left on
\* the position stack and the accumulator stack of the activation it ran in
Outcome(r) == <<r.status, r.reg, r.pos, r.ps, r.acc>>

\* C28: inline splice equals FORWARD call.  For every Forward node, a run of
\* its child's program compiled inline (first occurrence) and a run of it
\* through a FORWARD instruction (later occurrence) that start at the same
\* cursor of the same input give the same status, the same result, the same
\* cursor afterwards and the same position stack and accumulator stack of
\* the caller afterwards.
SpliceEqualsCall ==
    \A i \in 1..Len(ev), f \in DOMAIN future_table :
        \A r1, r2 \in Noted(ev[i]) :
            (InlineRun(r1, f) /\ ForwardRun(r2, f) /\ r1.pos0 = r2.pos0)
                => Outcome(r1) = Outcome(r2)

\* all children of the block's node have run, each once, in child order, and
\* each has succeeded
AllSucceeded(e) ==
    /\ Len(e.kids) = Len(e.node.children)
    /\ \A i \in 1..Len(e.kids) : e.kids[i].k = i /\ e.kids[i].status = SUCCESS

\* C29: Lift success.  When all N children of a Lift succeed in order, func
\* is called exactly once, with the N child values as positional arguments
\* in child order; if it returns, the Lift ends with SUCCESS, the value func
\* returned and the cursor where the last child ended; func is not called
\* when a child failed.
LiftSuccess ==
    \A e \in Events :
        e.node.type = "Lift" =>
            /\ AllSucceeded(e) =>
                  /\ e.calls = 1
                  /\ LET c == Call(e.node.func, Vals(e.kids))
                     IN  /\ c.ok => /\ e.status = SUCCESS
                                    /\ e.reg = c.val
                                    /\ e.pos = Last(e.kids).pos
                         /\ ~c.ok => e.status = ERROR
            /\ (\E i \in 1..Len(e.kids) : e.kids[i].status = ERROR) => e.calls = 0

\* C29 happens: a Lift of two children that gave different values has ended
\* with SUCCESS after calling a function that returns its arguments as a list
LiftSuccessSeen ==
    /\ \E e \in Events :
          /\ e.node.type = "Lift" /\ e.node.func = "pack"
          /\ Len(e.node.children) = 2 /\ AllSucceeded(e)
          /\ e.kids[1].reg # e.kids[2].reg
          /\ e.status = SUCCESS /\ e.pos = e.pos0 + 2

====
